---- MODULE Spec2Model ----
(***************************************************************************)
(* Model of the Code-relay judging backend:                                *)
(*   services/codeExecutor (runTestcases, executeCode) and                 *)
(*   routes/participantRoutes (levels, gate, run, submit).                 *)
(*                                                                         *)
(* JavaScript strings that the code trims are sequences of one-character   *)
(* strings; messages the code only copies are atomic strings.  A falsy     *)
(* string (undefined, null, '') is the empty one: the code reads these     *)
(* fields only through `x || fallback`.                                    *)
(***************************************************************************)
EXTENDS Integers, Sequences, FiniteSets, TLC

\* ------------------------------------------------------------------ bounds
\* Latest instant of the clock (Date.now()).
MaxTime == 1
\* Longest testcase batch handed to runTestcases in ExecSpec.
MaxBatch == 2
\* Most Submission rows the store holds.
MaxSubmissions == 2

\* ----------------------------------------------------------------- strings
\* null (the error of a clean run): the empty list of message parts.
NULL == <<>>

WhiteSpace == {" ", "\n"}

RECURSIVE TrimStart(_)
TrimStart(s) ==
    IF s = <<>> THEN <<>>
    ELSE IF Head(s) \in WhiteSpace THEN TrimStart(Tail(s)) ELSE s

RECURSIVE TrimEnd(_)
TrimEnd(s) ==
    IF s = <<>> THEN <<>>
    ELSE IF s[Len(s)] \in WhiteSpace THEN TrimEnd(SubSeq(s, 1, Len(s) - 1)) ELSE s

\* String.prototype.trim
Trim(s) == TrimEnd(TrimStart(s))

\* ------------------------------------------------------- execution client
\* The languages a request may name.
Languages == {"Python", "RUBY", "Cobol"}

ToLowerCase(l) ==
    CASE l = "Python" -> "python"
      [] l = "RUBY"   -> "ruby"
      [] l = "Cobol"  -> "cobol"
      [] l = "C"      -> "c"
      [] l = "C++"    -> "c++"
      [] l = "Java"   -> "java"
      [] OTHER        -> l

\* languageMap[language] || language.toLowerCase()
languageMap(l) ==
    CASE l = "C"      -> "c"
      [] l = "C++"    -> "c++"
      [] l = "Python" -> "python"
      [] l = "Java"   -> "java"
      [] OTHER        -> ToLowerCase(l)

\* An error as the catch block of executeCode sees it.  `response` is set by
\* axios when the sandbox answered with an HTTP error status; `data` is the
\* parsed body: an object (with or without a message), a string (an empty or
\* non-JSON body), or null.  Messages are lists of text parts.
NoResponse == [present |-> FALSE, data |-> "none", dataMessage |-> <<>>]

ThrownError(msg) == [response |-> NoResponse, message |-> msg]

HttpError(kind, dataMessage, msg) ==
    [response |-> [present |-> TRUE, data |-> kind, dataMessage |-> dataMessage],
     message |-> msg]

NoError == ThrownError(<<>>)

\* A completed executeCode call: either it returned {output, error,
\* executionTime} or it raised.  `by` names the return statement that made
\* the result: "compile", "signal", "clean", or "catch".
Returned(by, output, error, executionTime) ==
    [raised |-> FALSE, by |-> by, output |-> output, error |-> error,
     executionTime |-> executionTime, message |-> <<>>]

Raised(msg) ==
    [raised |-> TRUE, by |-> "catch", output |-> <<>>, error |-> NULL,
     executionTime |-> 0, message |-> msg]

\* a || b on strings
Or(a, b) == IF a # <<>> THEN a ELSE b

\* catch (error) { ... } of executeCode.  Reading `.message` of a null body
\* raises a TypeError out of the catch block, so out of executeCode.
CatchBlock(error, executionTime) ==
    IF error.response.present
    THEN IF error.response.data = "null"
         THEN Raised(<<"Cannot read properties of null (reading 'message')">>)
         ELSE Returned("catch", <<>>,
                       <<"API Error: ">> \o Or(error.response.dataMessage, error.message),
                       executionTime)
    ELSE Returned("catch", <<>>, error.message, executionTime)

\* The body of a 200 reply to POST /execute: {compile?, run?}.  A stage holds
\* code, stdout and stderr, and may hold output, the two streams as they were
\* written; a field that is absent reads as the empty string.
NoCompile == [present |-> FALSE, code |-> 0, stderr |-> <<>>, stdout |-> <<>>, output |-> <<>>]

Compile(code, stderr, stdout, output) ==
    [present |-> TRUE, code |-> code, stderr |-> stderr, stdout |-> stdout,
     output |-> output]

NoRun == [present |-> FALSE, code |-> 0, signal |-> <<>>, stdout |-> <<>>, stderr |-> <<>>]

Run(code, signal, stdout, stderr) ==
    [present |-> TRUE, code |-> code, signal |-> signal, stdout |-> stdout,
     stderr |-> stderr]

\* if (compile && compile.code !== 0) ... if (run.code !== 0 && run.signal) ...
\* `response.data.run.code` raises a TypeError when the reply has no run
\* section; the enclosing try hands it to the catch block.
Classify(data, executionTime) ==
    IF data.compile.present /\ data.compile.code # 0
    THEN Returned("compile", <<>>,
                  Or(data.compile.stderr, Or(data.compile.output, <<"Compilation error">>)),
                  executionTime)
    ELSE IF ~data.run.present
    THEN CatchBlock(ThrownError(<<"Cannot read properties of undefined (reading 'code')">>),
                    executionTime)
    ELSE IF data.run.code # 0 /\ data.run.signal # <<>>
    THEN Returned("signal", data.run.stdout,
                  Or(data.run.stderr,
                     <<"Runtime error (signal: ">> \o data.run.signal \o <<")">>),
                  executionTime)
    ELSE Returned("clean", data.run.stdout, Or(data.run.stderr, NULL), executionTime)

\* const runTimeoutMs = (timeLimit || 5) * 1000
runTimeoutMs(timeLimit) == (IF timeLimit # 0 THEN timeLimit ELSE 5) * 1000

\* The timeLimit argument the routes hand to runTestcases.  A question
\* without a time limit has timeLimit 0: null and 0 are both falsy, and
\* null * 1000 is 0.
RunRouteTimeLimit(questionTimeLimit) ==
    IF questionTimeLimit # 0 THEN questionTimeLimit * 1000 ELSE 5000

SubmitRouteTimeLimit(questionTimeLimit) == questionTimeLimit * 1000

RouteTimeLimit(kind, questionTimeLimit) ==
    IF kind = "run" THEN RunRouteTimeLimit(questionTimeLimit)
    ELSE SubmitRouteTimeLimit(questionTimeLimit)

\* --------------------------------------------------------- testcase runner
\* The outcome, were the catch branch to compare outputs like the try branch.
OutcomeNoCatch(tc, c) ==
    [testcaseId |-> tc.id, passed |-> Trim(c.output) = Trim(tc.expectedOutput),
     input |-> tc.input, expectedOutput |-> tc.expectedOutput,
     actualOutput |-> c.output, error |-> c.error,
     executionTime |-> c.executionTime]

\* The record runTestcases pushes for one testcase, from the completion of
\* its executeCode call (try branch, or catch branch when the call raised).
Outcome(tc, c) ==
    IF c.raised
    THEN [testcaseId |-> tc.id, passed |-> FALSE, input |-> tc.input,
          expectedOutput |-> tc.expectedOutput, actualOutput |-> <<>>,
          error |-> c.message, executionTime |-> 0]
    ELSE [testcaseId |-> tc.id, passed |-> Trim(c.output) = Trim(tc.expectedOutput),
          input |-> tc.input, expectedOutput |-> tc.expectedOutput,
          actualOutput |-> c.output, error |-> c.error,
          executionTime |-> c.executionTime]

\* ------------------------------------------------------------------- state
Participants == {1}
Levels == {1, 2, 3}
Questions == {1, 2}
Slots == {1}

VARIABLES
    now,          \* Date.now()
    exams,        \* the Exam rows in (sequence, createdAt) order; id = position
    questions,    \* the Question rows with their testcases, by id
    joined,       \* participant -> the exam ids it is connected to
    submissions,  \* the Submission rows, in creation order
    req           \* slot -> the request being handled there

vars == <<now, exams, questions, joined, submissions, req>>

NoCall == Returned("none", <<>>, NULL, 0)
NoResp == [status |-> 0, error |-> "", results |-> <<>>, submissionId |-> 0]

IdleReq ==
    [pc |-> "idle", kind |-> "none", pid |-> 0, qid |-> 0, language |-> "",
     timeLimit |-> 0, tcs |-> <<>>, results |-> <<>>, startTime |-> 0,
     calls |-> 0, posted |-> {}, lastCall |-> NoCall, response |-> NoResp]

\* ------------------------------------------------------ sandbox behaviours
Catalog ==
    << [language |-> "python", version |-> "3.10.0"],
       [language |-> "ruby", version |-> "3.0.1"] >>

AxiosErrors ==
    { ThrownError(<<"connect ECONNREFUSED">>),
      HttpError("object", <<"Requests limited to 1 per 200ms">>,
                <<"Request failed with status code 429">>),
      HttpError("object", <<>>, <<"Request failed with status code 500">>),
      HttpError("string", <<>>, <<"Request failed with status code 502">>),
      HttpError("null", <<>>, <<"Request failed with status code 500">>) }

RuntimesReplies ==
    { [kind |-> "ok", catalog |-> Catalog, error |-> NoError],
      [kind |-> "ok", catalog |-> <<>>, error |-> NoError],
      [kind |-> "malformed", catalog |-> <<>>, error |-> NoError] }
    \cup { [kind |-> "error", catalog |-> <<>>, error |-> e] : e \in AxiosErrors }

ExecuteBodies ==
    { [compile |-> Compile(1, <<"error: expected ';'">>, <<>>, <<"error: expected ';'">>),
       run |-> NoRun],
      [compile |-> Compile(1, <<>>, <<"ld: failed">>, <<"ld: failed">>), run |-> NoRun],
      [compile |-> Compile(1, <<>>, <<"ld: failed">>, <<>>), run |-> NoRun],
      [compile |-> Compile(1, <<>>, <<>>, <<>>), run |-> NoRun],
      [compile |-> Compile(0, <<>>, <<>>, <<>>), run |-> Run(0, <<>>, <<"a", "\n">>, <<>>)],
      [compile |-> NoCompile, run |-> Run(0, <<>>, <<"b">>, <<>>)],
      [compile |-> NoCompile, run |-> Run(0, <<>>, <<>>, <<"warning">>)],
      [compile |-> NoCompile, run |-> Run(1, <<>>, <<"a">>, <<"Traceback">>)],
      [compile |-> NoCompile, run |-> Run(1, <<"SIGKILL">>, <<"a">>, <<>>)],
      [compile |-> NoCompile, run |-> Run(1, <<"SIGSEGV">>, <<>>, <<"Segmentation fault">>)],
      [compile |-> NoCompile, run |-> NoRun] }

NoBody == [compile |-> NoCompile, run |-> NoRun]

ExecuteReplies ==
    { [kind |-> "ok", data |-> d, error |-> NoError] : d \in ExecuteBodies }
    \cup { [kind |-> "error", data |-> NoBody, error |-> e] : e \in AxiosErrors }

\* -------------------------------------------- runTestcases and executeCode
\* for (const testcase of testcases): the testcase the loop is at.
LoopIndex(r) == Len(r.results) + 1

\* results.push(...) and the next iteration of the loop.
Push(r, c) ==
    [r EXCEPT !.pc = "loop", !.lastCall = c,
              !.results = Append(@, Outcome(r.tcs[LoopIndex(r)], c))]

\* runtimesResponse.data.find(r => r.language === pistonLanguage)
HasRuntime(catalog, pistonLanguage) ==
    \E k \in 1..Len(catalog) : catalog[k].language = pistonLanguage

\* executeCode is entered for the next testcase: startTime is taken and
\* GET /runtimes is sent.
CallExecuteCode(s) ==
    /\ req[s].pc = "loop"
    /\ LoopIndex(req[s]) <= Len(req[s].tcs)
    /\ req' = [req EXCEPT ![s] = [@ EXCEPT !.pc = "awaitRuntimes",
                                            !.startTime = now,
                                            !.calls = @ + 1]]
    /\ UNCHANGED <<now, exams, questions, joined, submissions>>

\* The sandbox answers GET /runtimes.
RuntimesReply(s, reply) ==
    /\ req[s].pc = "awaitRuntimes"
    /\ LET r == req[s]
           elapsed == now - r.startTime
           pistonLanguage == languageMap(r.language)
       IN req' = [req EXCEPT ![s] =
            CASE reply.kind = "error" -> Push(r, CatchBlock(reply.error, elapsed))
              [] reply.kind = "malformed" ->
                   Push(r, CatchBlock(ThrownError(
                            <<"runtimesResponse.data.find is not a function">>), elapsed))
              [] reply.kind = "ok" /\ ~HasRuntime(reply.catalog, pistonLanguage) ->
                   Push(r, CatchBlock(ThrownError(
                            <<"Language ", r.language, " not supported. Tried: ",
                              pistonLanguage>>), elapsed))
              [] OTHER ->
                   [r EXCEPT !.pc = "awaitExecute",
                             !.posted = @ \cup {runTimeoutMs(r.timeLimit)}]]
    /\ UNCHANGED <<now, exams, questions, joined, submissions>>

\* The sandbox answers POST /execute.
ExecuteReply(s, reply) ==
    /\ req[s].pc = "awaitExecute"
    /\ LET r == req[s]
           elapsed == now - r.startTime
       IN req' = [req EXCEPT ![s] =
            IF reply.kind = "error"
            THEN Push(r, CatchBlock(reply.error, elapsed))
            ELSE Push(r, Classify(reply.data, elapsed))]
    /\ UNCHANGED <<now, exams, questions, joined, submissions>>

\* Time passes.
Tick ==
    /\ now < MaxTime
    /\ now' = now + 1
    /\ UNCHANGED <<exams, questions, joined, submissions, req>>

\* Time passes on the scale of the exam windows: a sandbox round trip is
\* shorter than one such instant, so none is pending across it.
WindowTick ==
    /\ \A s \in DOMAIN req : req[s].pc \notin {"awaitRuntimes", "awaitExecute"}
    /\ Tick

\* ------------------------------------------------------------- progression
QuestionsOf(examId) == {q \in DOMAIN questions : questions[q].examId = examId}

\* The count, were the query to leave out distinct: ['questionId'].
CompletedCountRows(pid, qids) ==
    Cardinality({k \in 1..Len(submissions) :
                    /\ submissions[k].participantId = pid
                    /\ submissions[k].questionId \in qids
                    /\ submissions[k].status = "COMPLETED"})

\* submission.findMany({where: {participantId, questionId: {in: qids},
\* status: 'COMPLETED'}, distinct: ['questionId']}).length
CompletedCount(pid, qids) ==
    Cardinality({q \in qids : \E k \in 1..Len(submissions) :
                    /\ submissions[k].participantId = pid
                    /\ submissions[k].questionId = q
                    /\ submissions[k].status = "COMPLETED"})

\* timedOut, were it to hold while the window is open.
TimedOutWhileOpen(exam) == \E t \in exam.endTime : now <= t

\* if (exam.endTime) timedOut = new Date().getTime() > new Date(exam.endTime).getTime()
TimedOut(exam) == \E t \in exam.endTime : now > t

\* The gate, were its loop to run up to the target level itself.
isExamUnlockedUpTo(ex, pid, examId) ==
    IF examId \notin 1..Len(ex) THEN FALSE
    ELSE IF examId = 1 THEN TRUE
    ELSE \A i \in 1..examId :
            LET prevQuestions == QuestionsOf(i)
                completed == CompletedCount(pid, prevQuestions) = Cardinality(prevQuestions)
                timedOut == TimedOut(ex[i])
            IN ~(~completed /\ ~timedOut /\ Cardinality(prevQuestions) > 0)

\* isExamUnlocked over the exam rows ex: the levels before the target are
\* read, the target's own row is not.
isExamUnlockedIn(ex, pid, examId) ==
    IF examId \notin 1..Len(ex) THEN FALSE
    ELSE IF examId = 1 THEN TRUE
    ELSE \A i \in 1..(examId - 1) :
            LET prevQuestions == QuestionsOf(i)
                completed == CompletedCount(pid, prevQuestions) = Cardinality(prevQuestions)
                timedOut == TimedOut(ex[i])
            IN ~(~completed /\ ~timedOut /\ Cardinality(prevQuestions) > 0)

\* The gate, were it to look at the level just before the target only.
isExamUnlockedPrevOnly(pid, examId) ==
    IF examId \notin 1..Len(exams) THEN FALSE
    ELSE IF examId = 1 THEN TRUE
    ELSE LET prevQuestions == QuestionsOf(examId - 1)
             completed == CompletedCount(pid, prevQuestions) = Cardinality(prevQuestions)
             timedOut == TimedOut(exams[examId - 1])
         IN ~(~completed /\ ~timedOut /\ Cardinality(prevQuestions) > 0)

\* async function isExamUnlocked(participantId, examId)
isExamUnlocked(pid, examId) == isExamUnlockedIn(exams, pid, examId)

\* POST /login: submission.findMany({where: {participantId, questionId:
\* {in: qids}, score: {gt: 0}}, distinct: ['questionId']}).length
ScoredCount(pid, qids) ==
    Cardinality({q \in qids : \E k \in 1..Len(submissions) :
                    /\ submissions[k].participantId = pid
                    /\ submissions[k].questionId = q
                    /\ submissions[k].score.num > 0})

\* POST /login: the loop from the exam at position i on; the position of
\* activeExam when the loop ends or breaks.
RECURSIVE ActiveFrom(_, _)
ActiveFrom(pid, i) ==
    IF i + 1 > Len(exams) THEN i
    ELSE LET prevQuestions == QuestionsOf(i)
         IN IF /\ ScoredCount(pid, prevQuestions) = Cardinality(prevQuestions)
               /\ Cardinality(prevQuestions) > 0
            THEN ActiveFrom(pid, i + 1)
            ELSE i

\* POST /login: activeExamId of the response (activeExam?.id || null, null
\* being 0).
activeExamId(pid) == IF Len(exams) = 0 THEN 0 ELSE ActiveFrom(pid, 1)

\* GET /exams: isLive of one exam.
IsLive(exam) ==
    IF exam.startTime # {} /\ exam.endTime # {}
    THEN \E a \in exam.startTime, b \in exam.endTime : now >= a /\ now <= b
    ELSE IF exam.startTime # {} THEN \E a \in exam.startTime : now >= a
    ELSE IF exam.endTime # {} THEN \E b \in exam.endTime : now <= b
    ELSE TRUE

\* GET /exams: the unlocked flag of the exam at position i, as the loop
\* carries it in previousUnlocked.
RECURSIVE Unlocked(_, _)
Unlocked(pid, i) ==
    IF i = 1 THEN TRUE
    ELSE IF Unlocked(pid, i - 1)
    THEN LET prevQuestions == QuestionsOf(i - 1)
         IN IF Cardinality(prevQuestions) > 0
            THEN \/ CompletedCount(pid, prevQuestions) = Cardinality(prevQuestions)
                 \/ TimedOut(exams[i - 1])
            ELSE FALSE
    ELSE FALSE

\* GET /exams: completed flag of the exam at position i.
Completed(pid, i) ==
    LET currentQuestions == QuestionsOf(i)
    IN IF Cardinality(currentQuestions) > 0
       THEN CompletedCount(pid, currentQuestions) = Cardinality(currentQuestions)
       ELSE FALSE

\* GET /exams: the examStatus list sent to the participant.
examStatus(pid) ==
    [i \in 1..Len(exams) |->
        [id |-> i, code |-> exams[i].code, unlocked |-> Unlocked(pid, i),
         joined |-> i \in joined[pid], needsCode |-> i \notin joined[pid],
         completed |-> Completed(pid, i), isLive |-> IsLive(exams[i])]]

\* ------------------------------------------------------------------ routes
Reject(kind, pid, qid, status, error) ==
    [IdleReq EXCEPT !.pc = "done", !.kind = kind, !.pid = pid, !.qid = qid,
                    !.response = [status |-> status, error |-> error,
                                  results |-> <<>>, submissionId |-> 0]]

\* The two security checks of /run and /submit over the exam rows ex, in the
\* order the handlers make them: "" when the request may go on.
GateIn(ex, pid, examId) ==
    IF ~isExamUnlockedIn(ex, pid, examId) THEN "Level locked"
    ELSE IF examId \notin joined[pid]
    THEN "Please enter the exam code to access this level."
    ELSE ""

\* The gate, were it to leave out the isExamUnlocked check.
GateJoinedOnly(pid, examId) ==
    IF examId \notin joined[pid]
    THEN "Please enter the exam code to access this level."
    ELSE ""

\* The two security checks of /run and /submit on the store's exam rows.
Gate(pid, examId) == GateIn(exams, pid, examId)

\* The two security checks of GET /questions.
QuestionsGateIn(ex, pid, examId) ==
    IF ~isExamUnlockedIn(ex, pid, examId)
    THEN "This level is locked. Complete previous levels first."
    ELSE IF examId \notin joined[pid]
    THEN "Please enter the exam code to access this level."
    ELSE ""

QuestionsGate(pid, examId) == QuestionsGateIn(exams, pid, examId)

\* runTestcases(code, language, testcases, timeLimit, memoryLimit) is called.
Start(kind, pid, qid, language, tcs) ==
    [IdleReq EXCEPT !.pc = "loop", !.kind = kind, !.pid = pid, !.qid = qid,
                    !.language = language, !.tcs = tcs,
                    !.timeLimit = RouteTimeLimit(kind, questions[qid].timeLimit)]

IsVisible(tc) == tc.visibility = "VISIBLE"

\* question.testcases.find(tc => tc.input.trim() === normalizedCustomInput)
Matching(tcs, customInput) ==
    {k \in 1..Len(tcs) : Trim(tcs[k].input) = Trim(customInput)}

First(S) == CHOOSE k \in S : \A j \in S : k <= j

\* testcasesToRun, were the caller's expected output to come first.
CustomTestcaseCallerFirst(tcs, custom) ==
    LET m == Matching(tcs, custom.input)
    IN [id |-> 0, input |-> custom.input,
        expectedOutput |-> IF custom.expectedOutput # <<>> THEN custom.expectedOutput
                           ELSE IF m # {} THEN tcs[First(m)].expectedOutput
                           ELSE <<>>,
        visibility |-> "NONE"]

\* testcasesToRun of a run with custom input; its id is 'custom', here 0.
CustomTestcase(tcs, custom) ==
    LET m == Matching(tcs, custom.input)
    IN [id |-> 0, input |-> custom.input,
        expectedOutput |-> IF m # {} THEN tcs[First(m)].expectedOutput
                           ELSE custom.expectedOutput,
        visibility |-> "NONE"]

\* POST /run up to the call of runTestcases.
RunHandler(pid, qid, language, custom) ==
    IF qid \notin DOMAIN questions
    THEN Reject("run", pid, qid, 404, "Question not found")
    ELSE IF Gate(pid, questions[qid].examId) # ""
    THEN Reject("run", pid, qid, 403, Gate(pid, questions[qid].examId))
    ELSE IF custom.present
    THEN Start("run", pid, qid, language,
               <<CustomTestcase(questions[qid].testcases, custom)>>)
    ELSE IF SelectSeq(questions[qid].testcases, IsVisible) = <<>>
    THEN Reject("run", pid, qid, 400, "No visible testcases available")
    ELSE Start("run", pid, qid, language, SelectSeq(questions[qid].testcases, IsVisible))

\* POST /submit, were it to leave out the check for an empty testcase set.
SubmitHandlerNoEmptyCheck(pid, qid, language) ==
    IF qid \notin DOMAIN questions
    THEN Reject("submit", pid, qid, 404, "Question not found")
    ELSE IF Gate(pid, questions[qid].examId) # ""
    THEN Reject("submit", pid, qid, 403, Gate(pid, questions[qid].examId))
    ELSE Start("submit", pid, qid, language, questions[qid].testcases)

\* POST /submit up to the call of runTestcases.
SubmitHandler(pid, qid, language) ==
    IF qid \notin DOMAIN questions
    THEN Reject("submit", pid, qid, 404, "Question not found")
    ELSE IF Gate(pid, questions[qid].examId) # ""
    THEN Reject("submit", pid, qid, 403, Gate(pid, questions[qid].examId))
    ELSE IF questions[qid].testcases = <<>>
    THEN Reject("submit", pid, qid, 400, "No testcases available")
    ELSE Start("submit", pid, qid, language, questions[qid].testcases)

Free(s) == req[s].pc \in {"idle", "done"}

RunRequest(s, pid, qid, language, custom) ==
    /\ Free(s)
    /\ req' = [req EXCEPT ![s] = RunHandler(pid, qid, language, custom)]
    /\ UNCHANGED <<now, exams, questions, joined, submissions>>

InFlightSubmits == {t \in DOMAIN req : req[t].kind = "submit" /\ ~Free(t)}

SubmitRequest(s, pid, qid, language) ==
    /\ Free(s)
    /\ Len(submissions) + Cardinality(InFlightSubmits) < MaxSubmissions
    /\ req' = [req EXCEPT ![s] = SubmitHandler(pid, qid, language)]
    /\ UNCHANGED <<now, exams, questions, joined, submissions>>

\* res.json(...): the handler ends and its locals are gone.
Respond(r, response) ==
    [IdleReq EXCEPT !.pc = "done", !.kind = r.kind, !.pid = r.pid, !.qid = r.qid,
                    !.calls = r.calls, !.posted = r.posted, !.response = response]

\* results.map(r => ({testcaseId, passed, input, expectedOutput, ...}))
\* copies every field of an outcome.
ResponseEntries(results) == results

\* POST /run after runTestcases returned.
FinishRun(s) ==
    /\ req[s].pc = "loop"
    /\ req[s].kind = "run"
    /\ LoopIndex(req[s]) > Len(req[s].tcs)
    /\ req' = [req EXCEPT ![s] = Respond(req[s],
                 [status |-> 200, error |-> "",
                  results |-> ResponseEntries(req[s].results), submissionId |-> 0])]
    /\ UNCHANGED <<now, exams, questions, joined, submissions>>

RECURSIVE SumExecutionTime(_)
SumExecutionTime(results) ==
    IF results = <<>> THEN 0
    ELSE Head(results).executionTime + SumExecutionTime(Tail(results))

IsPassed(r) == r.passed

\* The row, were the score to be taken over the passed tests alone.
SubmissionRowPassedOnly(r) ==
    LET totalTests == Len(r.results)
        passedTests == Len(SelectSeq(r.results, IsPassed))
    IN [participantId |-> r.pid, questionId |-> r.qid, language |-> r.language,
        score |-> [num |-> passedTests * questions[r.qid].maxMarks,
                   den |-> IF passedTests = 0 THEN totalTests ELSE passedTests],
        totalTests |-> totalTests, passedTests |-> passedTests,
        status |-> "COMPLETED",
        executionTime |-> [num |-> SumExecutionTime(r.results), den |-> totalTests]]

\* The row, were the handlers to collect their outcomes in one shared list.
SubmissionRowShared(r) ==
    LET slots == {t \in DOMAIN req : req[t].kind = "submit" /\ req[t].qid = r.qid}
        passedAt(t) == Len(SelectSeq(req[t].results, IsPassed))
        RECURSIVE Sum(_, _)
        Sum(f, S) == IF S = {} THEN 0
                     ELSE LET t == CHOOSE u \in S : TRUE
                          IN IF f = "passed" THEN passedAt(t) + Sum(f, S \ {t})
                             ELSE Len(req[t].results) + Sum(f, S \ {t})
        totalTests == Sum("total", slots)
        passedTests == Sum("passed", slots)
    IN [participantId |-> r.pid, questionId |-> r.qid, language |-> r.language,
        score |-> [num |-> passedTests * questions[r.qid].maxMarks, den |-> totalTests],
        totalTests |-> totalTests, passedTests |-> passedTests,
        status |-> "COMPLETED",
        executionTime |-> [num |-> SumExecutionTime(r.results), den |-> totalTests]]

\* The row POST /submit creates from the results of its batch.  score and
\* executionTime are quotients, kept as numerator and denominator.
SubmissionRow(r) ==
    LET totalTests == Len(r.results)
        passedTests == Len(SelectSeq(r.results, IsPassed))
    IN [participantId |-> r.pid, questionId |-> r.qid, language |-> r.language,
        score |-> [num |-> passedTests * questions[r.qid].maxMarks, den |-> totalTests],
        totalTests |-> totalTests, passedTests |-> passedTests,
        status |-> "COMPLETED",
        executionTime |-> [num |-> SumExecutionTime(r.results), den |-> totalTests]]

\* results.filter(r => the testcase of r is VISIBLE).map(...)
VisibleTestcaseResults(r) ==
    LET tcs == questions[r.qid].testcases
        OfVisible(o) == \E k \in 1..Len(tcs) :
                            tcs[k].id = o.testcaseId /\ tcs[k].visibility = "VISIBLE"
    IN SelectSeq(r.results, OfVisible)

\* POST /submit, were it to keep one row for a participant and a question.
FinishSubmitUpsert(s) ==
    /\ req[s].pc = "loop"
    /\ req[s].kind = "submit"
    /\ LoopIndex(req[s]) > Len(req[s].tcs)
    /\ LET old == {k \in 1..Len(submissions) :
                     /\ submissions[k].participantId = req[s].pid
                     /\ submissions[k].questionId = req[s].qid}
           at == IF old = {} THEN Len(submissions) + 1 ELSE CHOOSE k \in old : TRUE
       IN /\ submissions' = IF old = {} THEN Append(submissions, SubmissionRow(req[s]))
                             ELSE [submissions EXCEPT ![at] = SubmissionRow(req[s])]
          /\ req' = [req EXCEPT ![s] = Respond(req[s],
                       [status |-> 200, error |-> "",
                        results |-> VisibleTestcaseResults(req[s]),
                        submissionId |-> at])]
    /\ UNCHANGED <<now, exams, questions, joined>>

\* POST /submit after runTestcases returned.
FinishSubmit(s) ==
    /\ req[s].pc = "loop"
    /\ req[s].kind = "submit"
    /\ LoopIndex(req[s]) > Len(req[s].tcs)
    /\ submissions' = Append(submissions, SubmissionRow(req[s]))
    /\ req' = [req EXCEPT ![s] = Respond(req[s],
                 [status |-> 200, error |-> "",
                  results |-> VisibleTestcaseResults(req[s]),
                  submissionId |-> Len(submissions) + 1])]
    /\ UNCHANGED <<now, exams, questions, joined>>

\* crypto.createHash('sha256').update(seed + id).digest('hex') with seed
\* `${participantId}-${examId}`: a fixed function, one-to-one in the
\* question id for a given seed; hex digests compare as these numbers do.
Hash(pid, examId, qid) == (qid * 5 + pid * 3 + examId * 7) % 11

\* The comparison, were it to call every two questions equal.
CompareEqual(pid, examId, a, b) == 0

\* hashA.localeCompare(hashB)
Compare(pid, examId, a, b) ==
    IF Hash(pid, examId, a) < Hash(pid, examId, b) THEN -1
    ELSE IF Hash(pid, examId, a) > Hash(pid, examId, b) THEN 1
    ELSE 0

\* One step of the sort: q is put behind the entries that do not come after it.
RECURSIVE Insert(_, _, _, _)
Insert(pid, examId, q, sorted) ==
    IF sorted = <<>> THEN <<q>>
    ELSE IF Compare(pid, examId, q, Head(sorted)) < 0 THEN <<q>> \o sorted
    ELSE <<Head(sorted)>> \o Insert(pid, examId, q, Tail(sorted))

\* questions.sort((a, b) => hashA.localeCompare(hashB))
RECURSIVE Sorted(_, _, _)
Sorted(pid, examId, fetched) ==
    IF fetched = <<>> THEN <<>>
    ELSE Insert(pid, examId, fetched[Len(fetched)],
                Sorted(pid, examId, SubSeq(fetched, 1, Len(fetched) - 1)))

\* The orders in which question.findMany may return the questions of a
\* level: the query has no orderBy.
Fetches(examId) ==
    LET S == QuestionsOf(examId)
    IN {f \in [1..Cardinality(S) -> S] : \A i, j \in 1..Cardinality(S) : i # j => f[i] # f[j]}

\* What GET /questions sends of the question q.
QuestionEntry(q) ==
    [id |-> q, examId |-> questions[q].examId,
     testcases |-> SelectSeq(questions[q].testcases, IsVisible)]

\* GET /questions, from the questions in the order they were fetched.
listQuestions(pid, examId, fetched) ==
    IF QuestionsGate(pid, examId) # ""
    THEN [status |-> 403, error |-> QuestionsGate(pid, examId), results |-> <<>>,
          submissionId |-> 0]
    ELSE IF fetched = <<>>
    THEN [status |-> 404, error |-> "No questions available for this level.",
          results |-> <<>>, submissionId |-> 0]
    ELSE [status |-> 200, error |-> "",
          results |-> [k \in 1..Len(fetched) |->
                          QuestionEntry(Sorted(pid, examId, fetched)[k])],
          submissionId |-> 0]

\* GET /questions
ListQuestions(s, pid, examId, fetched) ==
    /\ Free(s)
    /\ req' = [req EXCEPT ![s] =
                 [IdleReq EXCEPT !.pc = "done", !.kind = "list", !.pid = pid,
                                 !.response = listQuestions(pid, examId, fetched)]]
    /\ UNCHANGED <<now, exams, questions, joined, submissions>>

LowerChar(c) ==
    CASE c = "K" -> "k"
      [] c = "Y" -> "y"
      [] OTHER   -> c

\* String.prototype.toLowerCase on a string of characters
LowerCase(str) == [k \in 1..Len(str) |-> LowerChar(str[k])]

\* The joined sets, were the codes to be compared as they were sent.
JoinedAfterExact(pid, examId, code) ==
    IF code = <<>> THEN joined
    ELSE IF examId \notin 1..Len(exams) THEN joined
    ELSE IF exams[examId].code # code THEN joined
    ELSE IF examId \in joined[pid] THEN joined
    ELSE [joined EXCEPT ![pid] = @ \cup {examId}]

\* The joined sets after POST /join-exam: 400 without a code, 404 for an
\* unknown exam, 401 for a wrong code, no update when already joined.
JoinedAfter(pid, examId, code) ==
    IF code = <<>> THEN joined
    ELSE IF examId \notin 1..Len(exams) THEN joined
    ELSE IF LowerCase(Trim(exams[examId].code)) # LowerCase(Trim(code)) THEN joined
    ELSE IF examId \in joined[pid] THEN joined
    ELSE [joined EXCEPT ![pid] = @ \cup {examId}]

\* POST /join-exam
JoinExam(pid, examId, code) ==
    /\ joined' = JoinedAfter(pid, examId, code)
    /\ UNCHANGED <<now, exams, questions, submissions, req>>

\* ------------------------------------------------------------ data and Init
Visible(id, input, expectedOutput) ==
    [id |-> id, input |-> input, expectedOutput |-> expectedOutput,
     visibility |-> "VISIBLE"]

Hidden(id, input, expectedOutput) ==
    [id |-> id, input |-> input, expectedOutput |-> expectedOutput,
     visibility |-> "HIDDEN"]

\* The questions of the store: question 1 has a visible and a hidden
\* testcase and a time limit, question 2 only a hidden one and no time limit.
QuestionRow(q, examId) ==
    IF q = 1
    THEN [examId |-> examId, timeLimit |-> 2, maxMarks |-> 10,
          testcases |-> << Visible(11, <<"a">>, <<"a">>),
                           Hidden(12, <<"b">>, <<"h">>) >>]
    ELSE [examId |-> examId, timeLimit |-> 0, maxMarks |-> 10,
          testcases |-> << Hidden(21, <<"c">>, <<"h", "\n">>) >>]

EndTimes == {{}, {0}}

ExamRow(endTime) == [code |-> <<"K", "y">>, startTime |-> {}, endTime |-> endTime]

\* The last level's window is left open: no level comes after it.
LastLevel == CHOOSE l \in Levels : \A m \in Levels : m <= l


Init ==
    /\ now = 0
    /\ exams \in {[l \in Levels |-> ExamRow(IF l = LastLevel THEN {} ELSE f[l])] :
                     f \in [Levels -> EndTimes]}
    /\ questions \in {[q \in Questions |-> QuestionRow(q, f[q])] : f \in [Questions -> Levels]}
    /\ joined = [p \in Participants |-> {}]
    /\ submissions = <<>>
    /\ req = [s \in Slots |-> IdleReq]

\* What a participant may send.
JoinCodes == { <<" ", "k", "Y">>, <<"k">>, <<>> }

NoCustom == [present |-> FALSE, input |-> <<>>, expectedOutput |-> <<>>]

Custom(input, expectedOutput) ==
    [present |-> TRUE, input |-> input, expectedOutput |-> expectedOutput]

Customs == { NoCustom, Custom(<<"b", " ">>, <<"a">>), Custom(<<"d">>, <<>>) }

SysLanguages == {"Python"}

SysRuntimesReplies ==
    { [kind |-> "ok", catalog |-> Catalog, error |-> NoError] }

SysExecuteReplies ==
    { [kind |-> "ok", error |-> NoError,
       data |-> [compile |-> NoCompile, run |-> Run(0, <<>>, <<"a", "\n">>, <<>>)]],
      [kind |-> "ok", error |-> NoError,
       data |-> [compile |-> Compile(1, <<"error: expected ';'">>, <<>>,
                                     <<"error: expected ';'">>), run |-> NoRun]] }

Next ==
    \/ WindowTick
    \/ \E p \in Participants, e \in Levels \cup {9}, c \in JoinCodes :
            JoinExam(p, e, c)
    \/ \E s \in Slots, p \in Participants, q \in Questions \cup {9},
          l \in SysLanguages, c \in Customs : RunRequest(s, p, q, l, c)
    \/ \E s \in Slots, p \in Participants, q \in Questions \cup {9},
          l \in SysLanguages : SubmitRequest(s, p, q, l)
    \/ \E s \in Slots : CallExecuteCode(s)
    \/ \E s \in Slots, reply \in SysRuntimesReplies : RuntimesReply(s, reply)
    \/ \E s \in Slots, reply \in SysExecuteReplies : ExecuteReply(s, reply)
    \/ \E s \in Slots : FinishRun(s)
    \/ \E s \in Slots : FinishSubmit(s)

Spec == Init /\ [][Next]_vars

\* ------------------------------------- the execution client on its own
\* One run or submit request that has passed the gate and has just called
\* runTestcases, for every language, time limit and batch of testcases, under
\* every sandbox behaviour.
TimeLimits == {0, 2}

TestcasePool ==
    { [input |-> <<"a">>, expectedOutput |-> <<"a">>, visibility |-> "VISIBLE"],
      [input |-> <<>>, expectedOutput |-> <<" ">>, visibility |-> "HIDDEN"] }

Batches ==
    UNION { { [k \in 1..n |-> [id |-> 100 + k, input |-> f[k].input,
                               expectedOutput |-> f[k].expectedOutput,
                               visibility |-> f[k].visibility]] :
              f \in [1..n -> TestcasePool] } : n \in 1..MaxBatch }

ExecInit ==
    /\ now = 0
    /\ exams = [l \in Levels |-> ExamRow({})]
    /\ \E t \in TimeLimits, b \in Batches :
          questions = [q \in Questions |->
                          IF q = 1 THEN [examId |-> 1, timeLimit |-> t, maxMarks |-> 10,
                                         testcases |-> b]
                          ELSE QuestionRow(q, 1)]
    /\ joined = [p \in Participants |-> {1}]
    /\ submissions = <<>>
    /\ \E kind \in {"run", "submit"}, l \in Languages :
          LET tcs == IF kind = "run" THEN SelectSeq(questions[1].testcases, IsVisible)
                     ELSE questions[1].testcases
          IN /\ tcs # <<>>
             /\ req = [s \in Slots |-> Start(kind, 1, 1, l, tcs)]

ExecNext ==
    \/ WindowTick
    \/ \E s \in Slots : CallExecuteCode(s)
    \/ \E s \in Slots, reply \in RuntimesReplies : RuntimesReply(s, reply)
    \/ \E s \in Slots, reply \in ExecuteReplies : ExecuteReply(s, reply)
    \/ \E s \in Slots : FinishRun(s)
    \/ \E s \in Slots : FinishSubmit(s)

ExecSpec == ExecInit /\ [][ExecNext]_vars

\* The event loop runs every continuation that is ready; nothing makes the
\* sandbox answer.
FairExecSpec ==
    /\ ExecSpec
    /\ \A s \in Slots : /\ WF_vars(CallExecuteCode(s))
                        /\ WF_vars(FinishRun(s))
                        /\ WF_vars(FinishSubmit(s))

\* ------------------------------------------- submit requests side by side
\* Two handlers of POST /submit at once, over a store with a question of two
\* testcases, a question without testcases and a question on the second
\* level, which opens when the first level's window has closed.
SubmitSlots == {1, 2}

SubmitQuestionRow(q) ==
    CASE q = 1 -> [examId |-> 1, timeLimit |-> 2, maxMarks |-> 10,
                   testcases |-> << Visible(11, <<"a">>, <<"a">>),
                                    Hidden(12, <<"b">>, <<"h">>) >>]
      [] q = 2 -> [examId |-> 1, timeLimit |-> 2, maxMarks |-> 4, testcases |-> <<>>]
      [] OTHER -> [examId |-> 2, timeLimit |-> 0, maxMarks |-> 6,
                   testcases |-> << Visible(31, <<"a">>, <<"a">>) >>]

SubmitInit ==
    /\ now = 0
    /\ exams = << ExamRow({0}), ExamRow({}) >>
    /\ questions = [q \in {1, 2, 3} |-> SubmitQuestionRow(q)]
    /\ joined = [p \in Participants |-> {}]
    /\ submissions = <<>>
    /\ req = [s \in SubmitSlots |-> IdleReq]

SubmitNext ==
    \/ WindowTick
    \/ \E p \in Participants, e \in {1, 2}, c \in JoinCodes : JoinExam(p, e, c)
    \/ \E s \in SubmitSlots, p \in Participants, q \in {1, 2, 3, 9},
          l \in SysLanguages : SubmitRequest(s, p, q, l)
    \/ \E s \in SubmitSlots : CallExecuteCode(s)
    \/ \E s \in SubmitSlots, reply \in SysRuntimesReplies : RuntimesReply(s, reply)
    \/ \E s \in SubmitSlots, reply \in SysExecuteReplies : ExecuteReply(s, reply)
    \/ \E s \in SubmitSlots : FinishSubmit(s)

SubmitSpec == SubmitInit /\ [][SubmitNext]_vars

\* ------------------------------------------------- the list of questions
\* Three questions spread over two levels, the first of which may close.
ListQuestionIds == {1, 2, 3}

ListInit ==
    /\ now = 0
    /\ exams \in { << ExamRow(endTime), ExamRow({}) >> : endTime \in EndTimes }
    /\ questions \in {[q \in ListQuestionIds |-> QuestionRow(q, f[q])] :
                         f \in [ListQuestionIds -> {1, 2}]}
    /\ joined = [p \in Participants |-> {}]
    /\ submissions = <<>>
    /\ req = [s \in Slots |-> IdleReq]

ListNext ==
    \/ WindowTick
    \/ \E p \in Participants, e \in {1, 2}, c \in JoinCodes : JoinExam(p, e, c)
    \/ \E s \in Slots, p \in Participants, e \in {1, 2, 9} :
          \E fetched \in Fetches(e) : ListQuestions(s, p, e, fetched)

ListSpec == ListInit /\ [][ListNext]_vars

\* ------------------------------------------ every participant operation
\* The handler at slot s has answered a request without a testcase batch.
Answer(s, kind, pid, status, error, results) ==
    req' = [req EXCEPT ![s] =
              [IdleReq EXCEPT !.pc = "done", !.kind = kind, !.pid = pid,
                              !.response = [status |-> status, error |-> error,
                                            results |-> results, submissionId |-> 0]]]

\* The registered participants: those with a row, joined to some exams or none.
Registered == DOMAIN joined

\* POST /register with the trimmed team name `name`, 0 being the empty one.
\* A participant's id is its name.
Register(s, name) ==
    /\ Free(s)
    /\ IF name = 0
       THEN /\ Answer(s, "register", name, 400, "Team Name is required", <<>>)
            /\ UNCHANGED joined
       ELSE IF name \in Registered
       THEN /\ Answer(s, "register", name, 400,
                      "Team name already registered. Please choose a different name.", <<>>)
            /\ UNCHANGED joined
       ELSE /\ Answer(s, "register", name, 201, "",
                      << [id |-> name, examId |-> IF Len(exams) > 0 THEN 1 ELSE 0] >>)
            /\ joined' = [p \in Registered \cup {name} |->
                             IF p \in Registered THEN joined[p] ELSE {}]
    /\ UNCHANGED <<now, exams, questions, submissions>>

\* POST /login
Login(s, name) ==
    /\ Free(s)
    /\ IF name = 0
       THEN Answer(s, "login", name, 400, "Team Name is required", <<>>)
       ELSE IF name \notin Registered
       THEN Answer(s, "login", name, 401, "Invalid credentials. Team name not found.", <<>>)
       ELSE Answer(s, "login", name, 200, "",
                   << [id |-> name, activeExamId |-> activeExamId(name)] >>)
    /\ UNCHANGED <<now, exams, questions, joined, submissions>>

\* GET /exams
ListLevels(s, pid) ==
    /\ Free(s)
    /\ Answer(s, "levels", pid, 200, "", examStatus(pid))
    /\ UNCHANGED <<now, exams, questions, joined, submissions>>

\* submission.findMany({where: {participantId}, orderBy: {createdAt: 'desc'}})
RECURSIVE OwnSubmissions(_, _)
OwnSubmissions(pid, k) ==
    IF k = 0 THEN <<>>
    ELSE IF submissions[k].participantId = pid
    THEN <<submissions[k]>> \o OwnSubmissions(pid, k - 1)
    ELSE OwnSubmissions(pid, k - 1)

\* GET /submissions
ListSubmissions(s, pid) ==
    /\ Free(s)
    /\ Answer(s, "submissions", pid, 200, "", OwnSubmissions(pid, Len(submissions)))
    /\ UNCHANGED <<now, exams, questions, joined, submissions>>

\* Two team names, one of them registered at the start; two levels with one
\* question each, the first level with or without an end.
StoreNames == {1, 2}

StoreInit ==
    /\ now = 0
    /\ exams \in { << ExamRow(endTime), ExamRow({}) >> : endTime \in EndTimes }
    /\ questions = [q \in Questions |-> QuestionRow(q, q)]
    /\ joined = [p \in {1} |-> {}]
    /\ submissions = <<>>
    /\ req = [s \in Slots |-> IdleReq]

StoreNext ==
    \/ WindowTick
    \/ \E s \in Slots, name \in StoreNames \cup {0} : Register(s, name)
    \/ \E s \in Slots, name \in StoreNames \cup {0} : Login(s, name)
    \/ \E p \in Registered, e \in {1, 2}, c \in JoinCodes : JoinExam(p, e, c)
    \/ \E s \in Slots, p \in Registered : ListLevels(s, p)
    \/ \E s \in Slots, p \in Registered, e \in {1, 2} :
          \E fetched \in Fetches(e) : ListQuestions(s, p, e, fetched)
    \/ \E s \in Slots, p \in Registered, q \in Questions,
          l \in SysLanguages : RunRequest(s, p, q, l, NoCustom)
    \/ \E s \in Slots, p \in Registered, q \in Questions,
          l \in SysLanguages : SubmitRequest(s, p, q, l)
    \/ \E s \in Slots : CallExecuteCode(s)
    \/ \E s \in Slots, reply \in SysRuntimesReplies : RuntimesReply(s, reply)
    \/ \E s \in Slots, reply \in SysExecuteReplies : ExecuteReply(s, reply)
    \/ \E s \in Slots : FinishRun(s)
    \/ \E s \in Slots : FinishSubmit(s)
    \/ \E s \in Slots, p \in Registered : ListSubmissions(s, p)

StoreSpec == StoreInit /\ [][StoreNext]_vars

\* ------------------------------------------------------------------ claims
Awaiting(s) == req[s].pc \in {"awaitRuntimes", "awaitExecute"}

Last(seq) == seq[Len(seq)]

\* A run or submit request for a known question arrives at slot s in this step.
Arrives(s) ==
    /\ Free(s)
    /\ req'[s] # req[s]
    /\ req'[s].kind \in {"run", "submit"}
    /\ req'[s].qid \in DOMAIN questions

C2_TransitionRule ==
    \A p \in Participants : \A i \in 1..Len(exams) :
        LET st == examStatus(p)
        IN st[i].unlocked <=>
              \/ i = 1
              \/ /\ i > 1
                 /\ st[i - 1].unlocked
                 /\ st[i - 1].completed \/ TimedOut(exams[i - 1])

\* C3: the gate isExamUnlocked admits a level that has a zero-question level
\* before it only if that zero-question level's endTime has passed.
C3_EmptyLevelNeedsTimeout ==
    \A p \in Participants : \A e \in 1..Len(exams) :
        isExamUnlocked(p, e) =>
            \A i \in 1..(e - 1) : QuestionsOf(i) = {} => TimedOut(exams[i])

\* C4: no gaps: in the GET /exams result and in the gate isExamUnlocked, an
\* unlocked level has only unlocked levels before it.
C4_NoGaps ==
    \A p \in Participants : \A i \in 1..Len(exams) : \A j \in 1..(i - 1) :
        /\ examStatus(p)[i].unlocked => examStatus(p)[j].unlocked
        /\ isExamUnlocked(p, i) => isExamUnlocked(p, j)

\* Level 2 is locked, and so is level 3 although level 2 is past its endTime.
C4_Witness ==
    \E p \in Participants :
        /\ QuestionsOf(1) # {}
        /\ QuestionsOf(2) # {}
        /\ TimedOut(exams[2])
        /\ ~examStatus(p)[2].unlocked /\ ~examStatus(p)[3].unlocked
        /\ ~isExamUnlocked(p, 2) /\ ~isExamUnlocked(p, 3)

AllTestcases ==
    UNION { { questions[q].testcases[k] : k \in 1..Len(questions[q].testcases) } :
            q \in DOMAIN questions }

HiddenTestcases == { tc \in AllTestcases : tc.visibility = "HIDDEN" }

\* C5: no response of run or submit holds the input or the expectedOutput of
\* a HIDDEN testcase.
C5_NoHiddenContent ==
    \A s \in Slots : \A k \in 1..Len(req[s].response.results) :
        \A tc \in HiddenTestcases :
            /\ req[s].response.results[k].input # tc.input
            /\ req[s].response.results[k].expectedOutput # tc.expectedOutput

\* C6: executeCode never raises to its caller.
C6_NeverRaises == \A s \in Slots : ~req[s].lastCall.raised

\* C7: every executeCode call that waits for the sandbox eventually returns.
C7_EveryCallReturns == \A s \in Slots : Awaiting(s) ~> ~Awaiting(s)

\* C8: the run_timeout sent to the sandbox is the question's time limit in
\* milliseconds, and 5000 for a question without a time limit.
C8_RunDeadline ==
    \A s \in Slots : \A ms \in req[s].posted :
        LET t == questions[req[s].qid].timeLimit
        IN ms = IF t = 0 THEN 5000 ELSE t * 1000

\* C9: a testcase whose executeCode call ended in a compile failure, a
\* signalled runtime failure or the catch block (unsupported language,
\* transport failure) has passed = false.
C9_FailureNeverPasses ==
    \A s \in Slots :
        (req[s].results # <<>> /\ req[s].lastCall.by \in {"compile", "signal", "catch"})
            => ~Last(req[s].results).passed

SubmitArrives(s) ==
    /\ Free(s)
    /\ req'[s] # req[s]
    /\ req'[s].kind = "submit"

\* The handler at slot s is past the gate and has not answered yet.
InFlight(s) == req[s].pc \in {"loop", "awaitRuntimes", "awaitExecute"}

\* C11: a submit request creates exactly one Submission when it passes both
\* gates, its question has a testcase and the whole batch has finished, and
\* none otherwise (question not found, locked, not joined, no testcases); the
\* row is written once outcomes exist for all testcases, with totalTests the
\* number of the question's testcases.
C11_OneSubmissionPerSubmit ==
    [][/\ \A s \in DOMAIN req :
            /\ SubmitArrives(s) =>
                  LET q == req'[s].qid
                      admitted == /\ q \in DOMAIN questions
                                  /\ isExamUnlocked(req'[s].pid, questions[q].examId)
                                  /\ questions[q].examId \in joined[req'[s].pid]
                                  /\ Len(questions[q].testcases) > 0
                  IN /\ submissions' = submissions
                     /\ admitted => req'[s].pc = "loop" /\ req'[s].results = <<>>
                     /\ ~admitted => /\ req'[s].pc = "done"
                                      /\ req'[s].response.status \in {400, 403, 404}
                                      /\ req'[s].response.submissionId = 0
            /\ (req[s].kind = "submit" /\ InFlight(s) /\ req'[s].pc = "done") =>
                  /\ Len(submissions') = Len(submissions) + 1
                  /\ req'[s].response.submissionId = Len(submissions')
       /\ Len(submissions') # Len(submissions) =>
            /\ Len(submissions') = Len(submissions) + 1
            /\ SubSeq(submissions', 1, Len(submissions)) = submissions
            /\ \E s \in DOMAIN req :
                  /\ req[s].kind = "submit" /\ InFlight(s) /\ req'[s].pc = "done"
                  /\ \A t \in DOMAIN req \ {s} : req'[t] = req[t]
                  /\ Len(req[s].results) = Len(questions[req[s].qid].testcases)
                  /\ Last(submissions').totalTests = Len(questions[req[s].qid].testcases)
                  /\ Last(submissions').totalTests > 0
                  /\ Last(submissions').questionId = req[s].qid
                  /\ Last(submissions').participantId = req[s].pid]_vars

\* One submit has written its row while another was turned down for a
\* question without testcases.
C11_Witness ==
    /\ Len(submissions) = 1
    /\ \E s, t \in DOMAIN req :
          /\ req[s].kind = "submit" /\ req[s].pc = "done"
          /\ req[s].response.submissionId = 1
          /\ req[t].kind = "submit" /\ req[t].pc = "done"
          /\ req[t].response.error = "No testcases available"

\* The number of outcomes with passed = true.
PassedIn(results) == Len(SelectSeq(results, IsPassed))

\* C12: two submit requests of one participant for one question that overlap
\* in any way end with two distinct Submission rows, each with the score,
\* passedTests and totalTests of its own batch; no step of one handler changes
\* the other handler's outcomes or a row already written.
C12_ConcurrentSubmitsIsolated ==
    [][\A s \in DOMAIN req :
          /\ req'[s] # req[s] => \A t \in DOMAIN req \ {s} : req'[t] = req[t]
          /\ (req[s].kind = "submit" /\ InFlight(s) /\ req'[s].pc = "done") =>
                LET row == Last(submissions')
                    own == req[s].results
                IN /\ Len(submissions') = Len(submissions) + 1
                   /\ SubSeq(submissions', 1, Len(submissions)) = submissions
                   /\ req'[s].response.submissionId = Len(submissions')
                   /\ row.participantId = req[s].pid
                   /\ row.questionId = req[s].qid
                   /\ row.totalTests = Len(own)
                   /\ row.passedTests = PassedIn(own)
                   /\ row.score = [num |-> PassedIn(own) * questions[req[s].qid].maxMarks,
                                   den |-> Len(own)]
          /\ \A t \in DOMAIN req \ {s} :
                (/\ req[s].kind = "submit" /\ req[s].pc = "done"
                 /\ req[t].kind = "submit" /\ req[t].pc = "done"
                 /\ req[s].response.submissionId # 0
                 /\ req[t].response.submissionId # 0)
                    => req[s].response.submissionId # req[t].response.submissionId]_vars

\* Two submits for question 1 overlap: one has written its row with one test
\* passed, the other has finished its batch with none passed and is about to
\* write.
C12_Witness ==
    \E s, t \in DOMAIN req :
        /\ s # t
        /\ req[s].kind = "submit" /\ req[s].pc = "done" /\ req[s].qid = 1
        /\ req[s].response.submissionId = 1
        /\ Len(submissions) = 1
        /\ submissions[1].passedTests = 1
        /\ req[t].kind = "submit" /\ req[t].pc = "loop" /\ req[t].qid = 1
        /\ req[t].pid = req[s].pid
        /\ Len(req[t].results) = 2
        /\ PassedIn(req[t].results) = 0

HasCompleted(p, q) ==
    \E k \in 1..Len(submissions) :
        /\ submissions[k].participantId = p
        /\ submissions[k].questionId = q
        /\ submissions[k].status = "COMPLETED"

\* C13: GET /exams reports a level with N > 0 questions completed iff the
\* participant has a COMPLETED Submission for each of its N questions,
\* whatever the scores; a level without questions is never reported completed.
C13_CompletedIffAllQuestions ==
    \A p \in Participants : \A i \in 1..Len(exams) :
        examStatus(p)[i].completed <=>
            /\ QuestionsOf(i) # {}
            /\ \A q \in QuestionsOf(i) : HasCompleted(p, q)

\* A level of two questions with two Submissions, both for question 1 and
\* one of them with score 0: not completed.
C13_Witness ==
    \E p \in Participants, i \in 1..Len(exams) :
        /\ QuestionsOf(i) = {1, 2}
        /\ Len(submissions) = 2
        /\ submissions[1].questionId = 1 /\ submissions[2].questionId = 1
        /\ submissions[1].participantId = p /\ submissions[2].participantId = p
        /\ submissions[1].score.num = 0
        /\ ~examStatus(p)[i].completed

\* The outcomes slot s holds or has sent that belong to a custom input.
CustomOutcomes(s) ==
    { req[s].results[k] : k \in 1..Len(req[s].results) }
        \cup { req[s].response.results[k] : k \in 1..Len(req[s].response.results) }

\* C14: in a run with custom input that equals, after trimming, the trimmed
\* input of a testcase of the question (visible or hidden), pass or fail is
\* decided against that testcase's expectedOutput, never against the
\* expected output the caller sent.
C14_CustomRunUsesTestcase ==
    \A s \in DOMAIN req : \A o \in CustomOutcomes(s) :
        (req[s].kind = "run" /\ o.testcaseId = 0) =>
            LET tcs == questions[req[s].qid].testcases
                same == {k \in 1..Len(tcs) : Trim(tcs[k].input) = Trim(o.input)}
            IN same # {} =>
                  \E k \in same :
                      /\ o.expectedOutput = tcs[k].expectedOutput
                      /\ o.passed <=> Trim(o.actualOutput) = Trim(tcs[k].expectedOutput)

\* A custom run with input "b " and caller's expected output "a" printed "a":
\* it failed against the hidden testcase's "h".
C14_Witness ==
    \E s \in DOMAIN req : \E o \in CustomOutcomes(s) :
        /\ req[s].kind = "run" /\ req[s].pc = "done"
        /\ o.testcaseId = 0
        /\ o.input = <<"b", " ">>
        /\ o.actualOutput = <<"a", "\n">>
        /\ o.expectedOutput = <<"h">>
        /\ ~o.passed

\* C16: a run request on a question without VISIBLE testcases is rejected
\* without any executeCode call, with or without custom input.
C16_RunNeedsVisibleTestcase ==
    \A s \in DOMAIN req :
        (/\ req[s].kind = "run"
         /\ req[s].qid \in DOMAIN questions
         /\ SelectSeq(questions[req[s].qid].testcases, IsVisible) = <<>>)
            => /\ req[s].pc = "done"
               /\ req[s].response.status # 200
               /\ req[s].calls = 0

\* The characters of a code without the white space around them, in lower case.
Normal(code) ==
    LET inner == {k \in 1..Len(code) : code[k] \notin WhiteSpace}
        lo == CHOOSE k \in inner : \A j \in inner : k <= j
        hi == CHOOSE k \in inner : \A j \in inner : j <= k
    IN IF inner = {} THEN <<>>
       ELSE [k \in 1..(hi - lo + 1) |->
               LET c == code[lo + k - 1]
               IN IF c = "K" THEN "k" ELSE IF c = "Y" THEN "y" ELSE c]

\* C17: a join request adds the level to the participant's joined set iff the
\* level exists and the code sent equals the level's code after trimming and
\* case-folding both; a wrong code, a missing code or an unknown level leaves
\* the joined sets as they were, and so does joining a level joined already.
C17_JoinIffCodeMatches ==
    /\ \A p \in Participants, e \in Levels \cup {9}, c \in JoinCodes :
          JoinedAfter(p, e, c) =
              IF e \in 1..Len(exams) /\ c # <<>> /\ Normal(c) = Normal(exams[e].code)
              THEN [q \in Participants |-> IF q = p THEN joined[q] \cup {e} ELSE joined[q]]
              ELSE joined
    /\ \A p \in Participants : joined[p] \subseteq 1..Len(exams)

\* The participant has joined level 2 with the code " kY" and not level 1.
C17_Witness ==
    \E p \in Participants :
        /\ joined[p] = {2}
        /\ JoinedAfter(p, 2, <<" ", "k", "Y">>) = joined
        /\ JoinedAfter(p, 1, <<"k">>) = joined
        /\ JoinedAfter(p, 1, <<" ", "k", "Y">>) # joined

\* The start and end times a level's window may have.
Windows == {{}, {0}, {1}}

\* The exam rows with the window of level e replaced.
WithWindow(e, startTime, endTime) ==
    [exams EXCEPT ![e] = [@ EXCEPT !.startTime = startTime, !.endTime = endTime]]

\* C18: the access decision for a level (GET /questions, /run, /submit) is
\* the same in two data states that differ only in that level's startTime
\* and endTime, and so in its isLive flag.
C18_WindowDoesNotGate ==
    \A p \in Participants, e \in 1..Len(exams) :
        \A startTime \in Windows, endTime \in Windows :
            LET other == WithWindow(e, startTime, endTime)
            IN /\ GateIn(other, p, e) = Gate(p, e)
               /\ QuestionsGateIn(other, p, e) = QuestionsGate(p, e)

\* A run on a level whose window has closed was executed and answered; with
\* another window the level would be live.
C18_Witness ==
    \E s \in DOMAIN req :
        /\ req[s].kind = "run" /\ req[s].pc = "done"
        /\ req[s].response.status = 200
        /\ req[s].qid \in DOMAIN questions
        /\ LET e == questions[req[s].qid].examId
           IN /\ e > 1
              /\ ~IsLive(exams[e])
              /\ IsLive(WithWindow(e, {}, {})[e])
              /\ Gate(req[s].pid, e) = ""
              /\ QuestionsGate(req[s].pid, e) = ""

\* The ids of the questions in a GET /questions response.
Ids(results) == [k \in 1..Len(results) |-> results[k].id]

\* C19: for a participant and a level, GET /questions sends a permutation of
\* the level's questions that is the same whatever the order in which the
\* store returned them and whatever else the store holds: the questions in
\* increasing order of their hash.
C19_StableOrder ==
    /\ \A p \in Participants, e \in 1..Len(exams) :
          \A f \in Fetches(e), g \in Fetches(e) :
              LET r == listQuestions(p, e, f)
                  ids == Ids(r.results)
              IN /\ r = listQuestions(p, e, g)
                 /\ r.status = 200 =>
                       /\ Len(ids) = Cardinality(QuestionsOf(e))
                       /\ {ids[k] : k \in 1..Len(ids)} = QuestionsOf(e)
                       /\ \A i, j \in 1..Len(ids) :
                             i < j => Hash(p, e, ids[i]) < Hash(p, e, ids[j])
    /\ \A s \in DOMAIN req :
          (req[s].kind = "list" /\ req[s].response.status = 200) =>
              LET ids == Ids(req[s].response.results)
                  e == req[s].response.results[1].examId
              IN /\ {ids[k] : k \in 1..Len(ids)} = QuestionsOf(e)
                 /\ \A i, j \in 1..Len(ids) :
                       i < j => Hash(req[s].pid, e, ids[i]) < Hash(req[s].pid, e, ids[j])

\* The three questions of level 1 were sent in the order 3, 1, 2.
C19_Witness ==
    \E s \in DOMAIN req :
        /\ req[s].kind = "list"
        /\ req[s].response.status = 200
        /\ Ids(req[s].response.results) = <<3, 1, 2>>
        /\ Cardinality(Fetches(1)) = 6

\* C20: when the sandbox reports a non-zero compile exit status, the result
\* has empty output and its error is the compiler's stderr if that is not
\* empty, else the compiler's stdout if that is not empty, else
\* "Compilation error".
C20_CompileFailureResult ==
    [][\A s \in DOMAIN req, reply \in ExecuteReplies :
          (/\ ExecuteReply(s, reply)
           /\ reply.kind = "ok"
           /\ reply.data.compile.present
           /\ reply.data.compile.code # 0)
             => /\ ~req'[s].lastCall.raised
                /\ req'[s].lastCall.output = <<>>
                /\ req'[s].lastCall.error =
                      IF reply.data.compile.stderr # <<>> THEN reply.data.compile.stderr
                      ELSE IF reply.data.compile.stdout # <<>> THEN reply.data.compile.stdout
                      ELSE <<"Compilation error">>]_vars

\* C22: for every participant and level, the unlocked flag GET /exams reports
\* equals the decision of the gate isExamUnlocked that GET /questions, /run
\* and /submit apply to that level.
C22_ListingAgreesWithGate ==
    \A p \in Participants, e \in 1..Len(exams) :
        examStatus(p)[e].unlocked <=> isExamUnlocked(p, e)

\* C25: GET /exams does not send a level's join code to a participant who
\* has not joined that level.
C25_CodeOnlyWhenJoined ==
    \A p \in Participants, e \in 1..Len(exams) :
        ~examStatus(p)[e].joined => examStatus(p)[e].code # exams[e].code

\* C23: the active level login returns is the highest level, in sequence
\* order, that the gate isExamUnlocked admits for the participant, also when
\* a level was unlocked by the endTime of the level before it or by
\* COMPLETED submissions with score 0.
C23_LoginReturnsHighestUnlocked ==
    \A p \in Participants :
        /\ isExamUnlocked(p, activeExamId(p))
        /\ \A e \in 1..Len(exams) : isExamUnlocked(p, e) => e <= activeExamId(p)

\* C24: with the exams and the questions fixed, once the gate isExamUnlocked
\* admits a participant to a level it admits them ever after, whatever joins,
\* runs and submits follow and however the clock advances.
C24_UnlockIsStable ==
    [][(exams' = exams /\ questions' = questions) =>
          \A p \in Registered, e \in 1..Len(exams) :
              isExamUnlocked(p, e) => isExamUnlocked(p, e)']_vars

\* Level 2 was opened for participant 1 by its submission for level 1, whose
\* window stays open; since then participant 2 has registered, joined and
\* submitted, the clock has advanced, and participant 1 was sent the
\* questions of level 2.
C24_Witness ==
    \E s \in DOMAIN req :
        /\ exams[1].endTime = {}
        /\ Len(submissions) = 2
        /\ submissions[1].participantId = 1 /\ submissions[1].questionId = 1
        /\ submissions[2].participantId = 2
        /\ isExamUnlocked(1, 2)
        /\ ~isExamUnlocked(2, 2) \/ submissions[2].questionId = 1
        /\ now = MaxTime
        /\ req[s].kind = "list" /\ req[s].pid = 1 /\ req[s].pc = "done"
        /\ req[s].response.status = 200
        /\ req[s].response.results[1].examId = 2

\* C21: a Submission is immutable once created: no participant operation
\* (register, login, join, GET /exams, GET /questions, run, submit, GET
\* /submissions) changes or removes a row; submit alone adds one, at the end,
\* owned by the participant of the request; GET /submissions sends a
\* participant its own rows only.
C21_SubmissionsImmutable ==
    [][/\ Len(submissions') >= Len(submissions)
       /\ Len(submissions') <= Len(submissions) + 1
       /\ SubSeq(submissions', 1, Len(submissions)) = submissions
       /\ Len(submissions') = Len(submissions) + 1 =>
             \E s \in DOMAIN req :
                 /\ req[s].kind = "submit" /\ InFlight(s) /\ req'[s].pc = "done"
                 /\ Last(submissions').participantId = req[s].pid
                 /\ Last(submissions').questionId = req[s].qid
       /\ \A s \in DOMAIN req :
             req'[s].kind = "submissions" =>
                 \A k \in 1..Len(req'[s].response.results) :
                     req'[s].response.results[k].participantId = req'[s].pid
      ]_vars

\* Participant 1 has two rows for question 1 and has been sent both, the
\* later one first, after participant 2 registered.
C21_Witness ==
    \E s \in DOMAIN req :
        /\ Registered = {1, 2}
        /\ Len(submissions) = 2
        /\ submissions[1].participantId = 1 /\ submissions[1].questionId = 1
        /\ submissions[2].participantId = 1 /\ submissions[2].questionId = 1
        /\ submissions[1] # submissions[2]
        /\ req[s].kind = "submissions" /\ req[s].pid = 1
        /\ req[s].response.results = << submissions[2], submissions[1] >>
====
